---- MODULE Spec2Model ----
(***************************************************************************)
(* SolarAudit (sunerdsapp.py): the financial_data table, add_financial_data *)
(* and calculate_detailed_financials.                                      *)
(*                                                                         *)
(* Numbers.  The program computes in binary floating point.  The model     *)
(* computes the same expressions exactly, on rationals <<n, d>> in lowest  *)
(* terms with d > 0, and round(x, k) is Python's round: to the nearest     *)
(* multiple of 10^-k, a tie going to the even multiple.  The inputs are    *)
(* chosen so that every intermediate value fits TLC's 32-bit integers.     *)
(*                                                                         *)
(* Rows.  A row of financial_data is the tuple SELECT * returns, in the    *)
(* order of CREATE TABLE: id, property_id, electricity_rate,               *)
(* installation_cost_per_watt, incentives, financing_rate, financing_term, *)
(* maintenance_cost_annual, electricity_price_increase, timestamp.  The    *)
(* method reads it by position, financial_data[1] .. financial_data[7],    *)
(* and the model reads the same positions.                                 *)
(***************************************************************************)
EXTENDS Integers, Sequences, FiniteSets

\* ------------------------------------------------------------- bounds

MaxRows == 2        \* rows the financial_data table may hold
MaxClock == 1       \* datetime.now() reads a value in 0..MaxClock
MaxYears == 3       \* largest horizon given to calculate_detailed_financials

\* ---------------------------------------------------------- rationals

Abs(x) == IF x < 0 THEN 0 - x ELSE x

RECURSIVE GCD(_, _)
GCD(a, b) == IF b = 0 THEN a ELSE GCD(b, a % b)

\* The rational n/d in lowest terms, with a positive denominator.
R(n, d) ==
    LET s == IF d < 0 THEN 0 - 1 ELSE 1
        g == GCD(Abs(n), Abs(d))
    IN  <<(s * n) \div g, (s * d) \div g>>

Zero == <<0, 1>>
One == <<1, 1>>

RMul(x, y) ==
    LET g1 == GCD(Abs(x[1]), y[2])
        g2 == GCD(Abs(y[1]), x[2])
    IN  IF x[1] = 0 \/ y[1] = 0 THEN Zero
        ELSE <<(x[1] \div g1) * (y[1] \div g2), (x[2] \div g2) * (y[2] \div g1)>>

RInv(x) == R(x[2], x[1])

RDiv(x, y) == RMul(x, RInv(y))

RAdd(x, y) ==
    LET g == GCD(x[2], y[2])
    IN  R(x[1] * (y[2] \div g) + y[1] * (x[2] \div g), (x[2] \div g) * y[2])

RNeg(x) == <<0 - x[1], x[2]>>

RSub(x, y) == RAdd(x, RNeg(y))

RSign(x) == IF x[1] > 0 THEN 1 ELSE IF x[1] < 0 THEN 0 - 1 ELSE 0

RLt(x, y) == RSign(RSub(x, y)) < 0

RLe(x, y) == RSign(RSub(x, y)) <= 0

RGt(x, y) == RLt(y, x)

RGe(x, y) == RLe(y, x)

RECURSIVE RPow(_, _)
RPow(x, n) == IF n = 0 THEN One ELSE RMul(x, RPow(x, n - 1))

RECURSIVE Pow10(_)
Pow10(k) == IF k = 0 THEN 1 ELSE 10 * Pow10(k - 1)

\* Python's round(x, ndigits): the nearest multiple of 10^-ndigits, a tie
\* going to the even one.
round(x, ndigits) ==
    LET whole == x[1] \div x[2]
        s == RMul(<<x[1] % x[2], x[2]>>, <<Pow10(ndigits), 1>>)
        q == whole * Pow10(ndigits) + (s[1] \div s[2])
        r == s[1] % s[2]
        up == \/ 2 * r > s[2]
              \/ 2 * r = s[2] /\ q % 2 = 1
    IN  R(IF up THEN q + 1 ELSE q, Pow10(ndigits))

\* -------------------------------------------------------------- inputs

Properties == {1, 2}

\* The horizons a caller passes as years (an int, not validated).
Years == (0 - 1) .. MaxYears

\* An int as a number of the arithmetic.
Num(i) == <<i, 1>>

\* annual_potential_kwh values calculate_solar_potential may return.
AnnualProductions == {Zero, R(1, 5), R(101, 100), R(200, 1)}

\* The arguments of add_financial_data other than property_id.
FinancialParams ==
    [electricity_rate : {R(73, 50)},
     installation_cost_per_watt : {Zero, R(1, 2000), R(250, 1)},
     incentives : {Zero, R(1200, 1)},
     financing_rate : {Zero, R(1, 4)},
     financing_term : {0, 1},
     maintenance_cost_annual : {Zero, R(1, 4)},
     electricity_price_increase : {R(3, 100)}]

\* The parameter record written while the table grows to several rows:
\* the method's defaults, no incentives.
StoreParams ==
    {fp \in FinancialParams :
        /\ fp.installation_cost_per_watt = Zero
        /\ fp.incentives = Zero
        /\ fp.financing_rate = Zero
        /\ fp.financing_term = 0
        /\ fp.maintenance_cost_annual = Zero}

\* --------------------------------------------------------------- state

VARIABLES
    financial_data,   \* the financial_data table: its rows in rowid order
    solar,            \* property_id -> annual_potential_kwh of calculate_solar_potential
    tie_order,        \* which of the rows equal under ORDER BY the engine returns first
    last              \* the most recent calculate_detailed_financials call since the last write

vars == <<financial_data, solar, tie_order, last>>

NoCall ==
    [called |-> FALSE, property_id |-> 0, years |-> 0, repeated |-> FALSE,
     raised |-> "", solar_called |-> FALSE, row |-> <<>>, result |-> <<>>]

\* CREATE TABLE IF NOT EXISTS financial_data, on a fresh db_path.
setup_database == <<>>

TieOrders == {"lowest_rowid", "highest_rowid"}

\* The row INSERT INTO financial_data writes, as SELECT * returns it.
inserted_row(id, property_id, fp, now) ==
    <<Num(id), Num(property_id), fp.electricity_rate,
      fp.installation_cost_per_watt, fp.incentives, fp.financing_rate,
      Num(fp.financing_term), fp.maintenance_cost_annual,
      fp.electricity_price_increase, Num(now)>>

\* The columns by name (1-based positions of the tuple).
row_id(row) == row[1]
row_property_id(row) == row[2]
row_electricity_rate(row) == row[3]
row_installation_cost_per_watt(row) == row[4]
row_incentives(row) == row[5]
row_financing_rate(row) == row[6]
row_financing_term(row) == row[7]
row_maintenance_cost_annual(row) == row[8]
row_electricity_price_increase(row) == row[9]
row_timestamp(row) == row[10]

\* SolarAudit(): an empty table.
Init ==
    /\ financial_data = setup_database
    /\ solar = [p \in Properties |-> R(200, 1)]
    /\ tie_order \in TieOrders
    /\ last = NoCall

\* One add_financial_data call made: the inputs of one projection.
InitProjection ==
    /\ \E property_id \in Properties, fp \in FinancialParams :
          financial_data = <<inserted_row(1, property_id, fp, 0)>>
    /\ \E ap \in AnnualProductions : solar = [p \in Properties |-> ap]
    /\ tie_order = "lowest_rowid"
    /\ last = NoCall

\* -------------------------------------------------- add_financial_data

\* INSERT INTO financial_data ... VALUES (..., datetime.now()); commit.
\* The id is the INTEGER PRIMARY KEY (no row is ever deleted, so it is
\* the row count plus one); now is the wall clock, which has a finite
\* resolution and is not monotonic.
add_financial_data(property_id, fp, now) ==
    /\ Len(financial_data) < MaxRows
    /\ financial_data' = Append(financial_data,
          inserted_row(Len(financial_data) + 1, property_id, fp, now))
    /\ last' = NoCall
    /\ UNCHANGED <<solar, tie_order>>

\* ----------------------------------------- calculate_detailed_financials

\* fetchone without the WHERE clause: the newest row of any property.
fetchone_any_property(property_id) ==
    LET newest == {i \in 1 .. Len(financial_data) :
                    \A j \in 1 .. Len(financial_data) :
                        RLe(row_timestamp(financial_data[j]),
                            row_timestamp(financial_data[i]))}
    IN  IF newest = {} THEN <<>>
        ELSE <<financial_data[CHOOSE i \in newest : \A j \in newest : i <= j]>>

\* SELECT * FROM financial_data WHERE property_id = ? ORDER BY timestamp
\* DESC LIMIT 1; fetchone(): <<>> is None.  SQL leaves the order of rows
\* with equal timestamps to the engine; tie_order is the engine's choice
\* (SQLite's sorter returns the lowest rowid first).
fetchone(property_id) ==
    LET mine == {i \in 1 .. Len(financial_data) :
                    row_property_id(financial_data[i]) = Num(property_id)}
        newest == {i \in mine :
                    \A j \in mine :
                        RLe(row_timestamp(financial_data[j]),
                            row_timestamp(financial_data[i]))}
        pick == IF tie_order = "lowest_rowid"
                THEN CHOOSE i \in newest : \A j \in newest : i <= j
                ELSE CHOOSE i \in newest : \A j \in newest : i >= j
    IN  IF mine = {} THEN <<>> ELSE <<financial_data[pick]>>

\* financial_data[k] of the method: Python's 0-based index into the tuple.
item(fd, k) == fd[k + 1]

\* solar_potential["annual_potential_kwh"] of calculate_solar_potential,
\* which computes it from the stored property data.
calculate_solar_potential(property_id) == solar[property_id]

\* system_size_kw = annual_production / (365 * 4)
system_size_kw(annual_production) == RDiv(annual_production, Num(365 * 4))

\* base_cost = system_size_kw * 1000 * financial_data[2]
base_cost(annual_production, fd) ==
    RMul(RMul(system_size_kw(annual_production), Num(1000)), item(fd, 2))

\* net_cost = base_cost - financial_data[3]
net_cost(annual_production, fd) ==
    RSub(base_cost(annual_production, fd), item(fd, 3))

\* The degradation with its sign flipped: 1 + 0.005 * year.
degraded_production_growing(annual_production, year) ==
    RMul(annual_production, RAdd(One, RMul(R(5, 1000), Num(year))))

\* production = annual_production * (1 - 0.005 * year)
degraded_production(annual_production, year) ==
    RMul(annual_production, RSub(One, RMul(R(5, 1000), Num(year))))

\* = written for +=: the year's net savings replace the running sum.
accumulate_overwriting(cumulative_savings, net_savings) == net_savings

\* cumulative_savings += net_savings
accumulate(cumulative_savings, net_savings) ==
    RAdd(cumulative_savings, net_savings)

\* The guard written as net_cost != 0: a negative net cost gets an ROI.
roi_percentage_nonzero_cost(cumulative_savings, cost) ==
    IF cost # Zero
    THEN RMul(RDiv(cumulative_savings, cost), Num(100))
    ELSE Zero

\* roi = (cumulative_savings / net_cost) * 100 if net_cost > 0 else 0
roi_percentage(cumulative_savings, cost) ==
    IF RGt(cost, Zero)
    THEN RMul(RDiv(cumulative_savings, cost), Num(100))
    ELSE Zero

\* electricity_rate *= (1 + financial_data[7])
escalate(electricity_rate, increase) ==
    RMul(electricity_rate, RAdd(One, increase))

\* for year in range(1, years + 1): ...; st holds the loop's variables.
RECURSIVE yearly_loop(_, _, _, _, _)
yearly_loop(fd, annual_production, cost, years, st) ==
    IF st.year > years THEN st
    ELSE
        LET production == degraded_production(annual_production, st.year)
            savings == RMul(production, st.electricity_rate)
            net_savings == RSub(savings, item(fd, 6))
            cumulative_savings == accumulate(st.cumulative_savings, net_savings)
            roi == roi_percentage(cumulative_savings, cost)
            electricity_rate == escalate(st.electricity_rate, item(fd, 7))
        IN  yearly_loop(fd, annual_production, cost, years,
                [year |-> st.year + 1,
                 cumulative_savings |-> cumulative_savings,
                 electricity_rate |-> electricity_rate,
                 yearly_analysis |-> Append(st.yearly_analysis,
                     [year |-> st.year,
                      production_kwh |-> round(production, 2),
                      electricity_rate |-> round(electricity_rate, 3),
                      yearly_savings |-> round(net_savings, 2),
                      cumulative_savings |-> round(cumulative_savings, 2),
                      roi_percentage |-> round(roi, 2)])])

\* financing_details: <<>> is None.  num_payments = financial_data[5] * 12
\* is an exponent; the inputs keep it a whole number.
financing_details(fd, cost) ==
    IF RGt(item(fd, 4), Zero) /\ RGt(item(fd, 5), Zero)
    THEN
        LET monthly_rate == RDiv(RDiv(item(fd, 4), Num(12)), Num(100))
            num_payments == RMul(item(fd, 5), Num(12))
            growth == RPow(RAdd(One, monthly_rate), num_payments[1])
            monthly_payment ==
                RDiv(RMul(RMul(cost, monthly_rate), growth), RSub(growth, One))
            total == RMul(monthly_payment, num_payments)
        IN  <<[monthly_payment |-> round(monthly_payment, 2),
               total_payments |-> round(total, 2),
               total_interest |-> round(RSub(total, cost), 2)]>>
    ELSE <<>>

\* next((year["year"] for year in yearly_analysis
\*       if year["cumulative_savings"] >= net_cost), None); <<>> is None.
break_even_year(yearly_analysis, cost) ==
    LET reached == {y \in 1 .. Len(yearly_analysis) :
                       RGe(yearly_analysis[y].cumulative_savings, cost)}
    IN  IF reached = {} THEN <<>>
        ELSE <<yearly_analysis[CHOOSE y \in reached :
                                  \A z \in reached : y <= z].year>>

\* The dict the method returns; years is not 0 here.
report(fd, annual_production, years) ==
    LET cost == net_cost(annual_production, fd)
        done == yearly_loop(fd, annual_production, cost, years,
                    [year |-> 1, cumulative_savings |-> Zero,
                     electricity_rate |-> item(fd, 1),
                     yearly_analysis |-> <<>>])
    IN  [system_details |->
             [size_kw |-> round(system_size_kw(annual_production), 2),
              base_cost |-> round(base_cost(annual_production, fd), 2),
              incentives |-> round(item(fd, 3), 2),
              net_cost |-> round(cost, 2)],
         financing |-> financing_details(fd, cost),
         yearly_analysis |-> done.yearly_analysis,
         summary |->
             [total_25_year_savings |-> round(done.cumulative_savings, 2),
              average_annual_savings |->
                  round(RDiv(done.cumulative_savings, Num(years)), 2),
              break_even_year |-> break_even_year(done.yearly_analysis, cost)]]

\* What one call does and returns: ValueError when no record is found,
\* before anything else; ZeroDivisionError from cumulative_savings / years
\* when years is 0, after the loop and the financing; the report otherwise.
outcome(property_id, years) ==
    LET financial_row == fetchone(property_id)
        call == [called |-> TRUE, property_id |-> property_id, years |-> years,
                 repeated |-> /\ last.called
                              /\ last.property_id = property_id
                              /\ last.years = years,
                 raised |-> "", solar_called |-> TRUE,
                 row |-> financial_row, result |-> <<>>]
    IN  IF financial_row = <<>>
        THEN [call EXCEPT !.raised = "ValueError", !.solar_called = FALSE]
        ELSE IF years = 0
        THEN [call EXCEPT !.raised = "ZeroDivisionError"]
        ELSE [call EXCEPT !.result =
                 <<report(financial_row[1],
                          calculate_solar_potential(property_id), years)>>]

\* A projection that consumes the record it read (DELETE after SELECT).
calculate_consuming_record(property_id, years) ==
    /\ last' = outcome(property_id, years)
    /\ financial_data' =
          SelectSeq(financial_data,
                    LAMBDA row : <<row>> # fetchone(property_id))
    /\ UNCHANGED <<solar, tie_order>>

\* The method only reads: SELECT, then arithmetic on local variables.
calculate_detailed_financials(property_id, years) ==
    /\ last' = outcome(property_id, years)
    /\ UNCHANGED <<financial_data, solar, tie_order>>

\* ------------------------------------------------------ specifications

Add ==
    \E property_id \in Properties, fp \in StoreParams, now \in 0 .. MaxClock :
        add_financial_data(property_id, fp, now)

Calculate ==
    \E property_id \in Properties, years \in Years :
        calculate_detailed_financials(property_id, years)

Next == Add \/ Calculate

Spec == Init /\ [][Next]_vars

SpecProjection == InitProjection /\ [][Calculate]_vars

\* ---------------------------------------------------- the last call

\* The call returned a report.
Returned == last.called /\ last.result # <<>>

TheReport == last.result[1]

TheRow == last.row[1]

TheRows == TheReport.yearly_analysis

TheProduction == solar[last.property_id]

\* The rows of property_id, by position in the table.
RowsOf(property_id) ==
    {i \in 1 .. Len(financial_data) :
        row_property_id(financial_data[i]) = Num(property_id)}

\* The exact values of the method's local variables for the last call, in
\* closed form: net_cost, and net_savings and cumulative_savings of year y.
ExactNetCost ==
    RSub(RDiv(RMul(RMul(TheProduction, Num(1000)), item(TheRow, 2)), Num(1460)),
         item(TheRow, 3))

ExactNetSavings(y) ==
    RSub(RMul(RMul(TheProduction, R(200 - y, 200)),
              RMul(item(TheRow, 1), RPow(RAdd(One, item(TheRow, 7)), y - 1))),
         item(TheRow, 6))

RECURSIVE ExactCumulative(_)
ExactCumulative(y) ==
    IF y = 0 THEN Zero ELSE RAdd(ExactCumulative(y - 1), ExactNetSavings(y))

\* --------------------------------------------------------------- claims

\* C1: a call for a property with no financial_data record raises (a
\* ValueError), returns no report, and raises before
\* calculate_solar_potential is called; records of other properties do not
\* change this.
C1_MissingDataRaises ==
    (last.called /\ RowsOf(last.property_id) = {})
        => /\ last.raised = "ValueError"
           /\ last.result = <<>>
           /\ ~last.solar_called

C1_Witness ==
    /\ last.called
    /\ RowsOf(last.property_id) = {}
    /\ Len(financial_data) > 0
    /\ last.raised = "ValueError"

\* C2: the projection for property p reads the most recently added record
\* of p (the one with the highest rowid among p's records), also when
\* records of p carry the same timestamp.
C2_MostRecentlyAddedRecordUsed ==
    (last.called /\ last.row # <<>>)
        => /\ row_property_id(TheRow) = Num(last.property_id)
           /\ \A i \in RowsOf(last.property_id) :
                  RLe(row_id(financial_data[i]), row_id(TheRow))

\* C3: break_even_year is the smallest year whose cumulative_savings (the
\* running sum) is >= net_cost, and None exactly when there is no such year.
C3_BreakEvenIsFirstYearReachingNetCost ==
    Returned =>
        LET reached == {y \in 1 .. Len(TheRows) :
                           RGe(ExactCumulative(y), ExactNetCost)}
        IN  TheReport.summary.break_even_year =
                IF reached = {} THEN <<>>
                ELSE <<CHOOSE y \in reached : \A z \in reached : y <= z>>

\* C4: with financing_rate 0 and financing_term > 0 a projection over a
\* horizon >= 1 does not fail and reports a financing schedule whose
\* monthly_payment is net_cost / (financing_term * 12).
C4_ZeroRateFinancingSchedule ==
    (/\ last.called
     /\ last.row # <<>>
     /\ last.years >= 1
     /\ row_financing_rate(TheRow) = Zero
     /\ RGt(row_financing_term(TheRow), Zero))
        => /\ Returned
           /\ TheReport.financing # <<>>
           /\ TheReport.financing[1].monthly_payment =
                  round(RDiv(ExactNetCost,
                             RMul(row_financing_term(TheRow), Num(12))), 2)

\* C5 as claimed: for every annual production > 0 the recorded
\* production_kwh strictly decreases from each year to the next.
C5_ProductionStrictlyDecreasing ==
    (Returned /\ RGt(TheProduction, Zero))
        => \A y \in 2 .. Len(TheRows) :
               RLt(TheRows[y].production_kwh, TheRows[y - 1].production_kwh)

\* C5 as amended: for every annual production > 0 the recorded
\* production_kwh never increases from one year to the next, and it
\* strictly decreases when the annual production is at least 4 kWh (a
\* yearly step of at least two rounding steps of 0.01).
C5_ProductionNonIncreasing ==
    (Returned /\ RGt(TheProduction, Zero))
        => \A y \in 2 .. Len(TheRows) :
               /\ RLe(TheRows[y].production_kwh, TheRows[y - 1].production_kwh)
               /\ RGe(TheProduction, Num(4))
                    => RLt(TheRows[y].production_kwh,
                           TheRows[y - 1].production_kwh)

C5_Witness ==
    /\ Returned
    /\ RGe(TheProduction, Num(4))
    /\ Len(TheRows) >= 2
    /\ RLt(TheRows[2].production_kwh, TheRows[1].production_kwh)

\* C6 as claimed: the recorded cumulative_savings of year y is the running
\* sum of the net savings of years 1..y, and it does not decrease from
\* year y-1 to year y if and only if the net savings of year y are >= 0.
C6_CumulativeMonotoneIffNetSavingsNonNegative ==
    Returned =>
        \A y \in 1 .. Len(TheRows) :
            /\ TheRows[y].cumulative_savings = round(ExactCumulative(y), 2)
            /\ y >= 2 =>
                 (RGe(TheRows[y].cumulative_savings,
                      TheRows[y - 1].cumulative_savings)
                    <=> RGe(ExactNetSavings(y), Zero))

\* C6 as amended: the recorded cumulative_savings of year y is the running
\* sum of the net savings of years 1..y rounded to 2 decimals; it does not
\* decrease from year y-1 to year y when the net savings of year y are
\* >= 0, and it decreases when they are below -0.01.
C6_CumulativeRunningSum ==
    Returned =>
        \A y \in 1 .. Len(TheRows) :
            /\ TheRows[y].cumulative_savings = round(ExactCumulative(y), 2)
            /\ (y >= 2 /\ RGe(ExactNetSavings(y), Zero))
                 => RGe(TheRows[y].cumulative_savings,
                        TheRows[y - 1].cumulative_savings)
            /\ (y >= 2 /\ RLt(ExactNetSavings(y), R(0 - 1, 100)))
                 => RLt(TheRows[y].cumulative_savings,
                        TheRows[y - 1].cumulative_savings)

C6_Witness ==
    /\ Returned
    /\ Len(TheRows) >= 3
    /\ RLt(ExactNetSavings(3), R(0 - 1, 100))
    /\ RLt(TheRows[3].cumulative_savings, TheRows[2].cumulative_savings)
    /\ TheRows[3].cumulative_savings = round(ExactCumulative(3), 2)

\* C7: if net_cost > 0 and the net savings of every year of the horizon are
\* > 0, the recorded roi_percentage never decreases from one year to the
\* next; and if net_cost <= 0 every recorded roi_percentage is 0.
C7_RoiMonotone ==
    Returned =>
        /\ (/\ RGt(ExactNetCost, Zero)
            /\ \A y \in 1 .. Len(TheRows) : RGt(ExactNetSavings(y), Zero))
             => \A y \in 2 .. Len(TheRows) :
                    RGe(TheRows[y].roi_percentage,
                        TheRows[y - 1].roi_percentage)
        /\ RLe(ExactNetCost, Zero)
             => \A y \in 1 .. Len(TheRows) : TheRows[y].roi_percentage = Zero

C7_Witness ==
    /\ Returned
    /\ RGt(ExactNetCost, Zero)
    /\ Len(TheRows) >= 2
    /\ \A y \in 1 .. Len(TheRows) : RGt(ExactNetSavings(y), Zero)
    /\ RGt(TheRows[2].roi_percentage, TheRows[1].roi_percentage)

\* C8: a projection adds, changes or removes no stored record and no other
\* state, and a projection that repeats the previous one (same property,
\* same horizon, no write in between) raises or returns the same.
C8_ProjectionReadsOnly ==
    [][last'.called =>
          /\ financial_data' = financial_data
          /\ solar' = solar
          /\ tie_order' = tie_order
          /\ (/\ last.called
              /\ last'.property_id = last.property_id
              /\ last'.years = last.years)
               => /\ last'.raised = last.raised
                  /\ last'.result = last.result]_vars

C8_Witness ==
    /\ Returned
    /\ last.repeated
    /\ Len(TheRows) >= 1

\* C9: a projection with a horizon below 1 raises and returns no report.
C9_HorizonBelowOneRaises ==
    (last.called /\ last.years < 1)
        => /\ last.raised # ""
           /\ last.result = <<>>

\* C10: year y's savings use electricity_rate * (1 +
\* electricity_price_increase)^(y-1) of the record, and year y's row records
\* electricity_rate * (1 + electricity_price_increase)^y.
C10_RateEscalatedOncePerYear ==
    Returned =>
        \A y \in 1 .. Len(TheRows) :
            /\ TheRows[y].electricity_rate =
                   round(RMul(row_electricity_rate(TheRow),
                              RPow(RAdd(One, row_electricity_price_increase(TheRow)),
                                   y)), 3)
            /\ TheRows[y].yearly_savings =
                   round(RSub(RMul(RMul(TheProduction, R(200 - y, 200)),
                                   RMul(row_electricity_rate(TheRow),
                                        RPow(RAdd(One,
                                                  row_electricity_price_increase(TheRow)),
                                             y - 1))),
                              row_maintenance_cost_annual(TheRow)), 2)

====
